---- MODULE Spec2Model ----
(***************************************************************************)
(* Device Condition Monitor: the validation pipeline, the CSV codec, the   *)
(* CSV append store and its background submission (src/Demo.cpp), and the  *)
(* JSON array rewrite and json_escape (src/unnamed/part_000).              *)
(*                                                                         *)
(* A string is a sequence of one-character strings.  A few multi-character *)
(* atoms ("uuid", "u1", "t1", ...) stand for a run of ordinary characters, *)
(* none of which is a comma, a double quote, a bracket, CR, LF or blank.   *)
(***************************************************************************)
EXTENDS Integers, Sequences, FiniteSets, TLC

VARIABLES
    file,          \* the destination path (devices.csv): [exists, data]
    tmp,           \* the temporary sibling <path>.tmp: [exists, data]
    \* ---- src/unnamed/part_000: one run of main / save_device_json
    jpc,           \* position inside main / save_device_json
    json_obj,      \* argument of save_device_json
    content,       \* local `content`
    outContent,    \* local `outContent`
    ec,            \* local `ec` after fs::rename
    ec2,           \* local `ec2` after the copy fallback
    exitCode,      \* what the last finished run of main returned / printed
    runs,          \* number of runs of main started so far
    prevFile,      \* history: the destination when the current call started
    stepFailed,    \* history: a file step of the current call failed
    jlog,          \* history: objects of the calls that returned, in order
    jclean,        \* history: no file step failed and no crash so far
    \* ---- src/Demo.cpp: the form and the background submission
    errLabel,      \* the twelve m_*Error labels
    addBtnEnabled, \* m_addBtn
    subs,          \* the submissions started so far (captured field values)
    fut,           \* per submission: the std::async future
    thr,           \* per submission: the detached std::thread
    uiQueue,       \* closures posted with CallAfter, not yet run
    uiPc,          \* the posted closure the UI thread is running, if any
    msgBoxes,      \* the message boxes shown so far, in order
    lastOp,        \* history: the last UI handler that ran and its input
    written,       \* history: the rows save_device_csv wrote, in order
    \* ---- the codec functions applied to one string
    cIn, cEsc, cCols, cpc,
    \* ---- one FormValidator constraint applied to one value
    vValue, vCall, vResult, vpc,
    \* ---- json_escape applied to one string
    eIn, eOut, epc

jvars == <<jpc, json_obj, content, outContent, ec, ec2, exitCode, runs,
           prevFile, stepFailed, jlog, jclean>>
gvars == <<errLabel, addBtnEnabled, subs, fut, thr, uiQueue, uiPc, msgBoxes,
           lastOp, written>>
cvars == <<cIn, cEsc, cCols, cpc>>
pvars == <<vValue, vCall, vResult, vpc, eIn, eOut, epc>>
fvars == <<file, tmp>>
vars == <<file, tmp, jpc, json_obj, content, outContent, ec, ec2, exitCode,
          runs, prevFile, stepFailed, jlog, jclean, errLabel, addBtnEnabled,
          subs, fut, thr, uiQueue, uiPc, msgBoxes, lastOp, written, cIn, cEsc,
          cCols, cpc, vValue, vCall, vResult, vpc, eIn, eOut, epc>>

----------------------------------------------------------------------------
(* Bounds *)
MaxRuns == 3          \* runs of part_000's main
MaxSubmissions == 2   \* accepted submissions of the form
MaxLen == 3           \* length of the strings handed to the codec

----------------------------------------------------------------------------
(* Files *)
Absent == [exists |-> FALSE, data |-> <<>>]
FileOf(d) == [exists |-> TRUE, data |-> d]

----------------------------------------------------------------------------
(* src/Demo.cpp: the CSV codec *)

DQ == "\""

\* what out.append("""") appends for a double quote: the token """" is two
\* adjacent empty string literals, which concatenate to the empty string
QuoteAppended == <<>>

RECURSIVE EscapeBody(_)
EscapeBody(s) ==
    IF s = <<>> THEN <<>>
    ELSE (IF Head(s) = DQ THEN QuoteAppended ELSE <<Head(s)>>)
         \o EscapeBody(Tail(s))

needQuotes(s) == \E i \in 1..Len(s) : s[i] \in {DQ, ",", "\n", "\r"}

csv_escape(s) ==
    IF ~needQuotes(s) THEN s ELSE <<DQ>> \o EscapeBody(s) \o <<DQ>>

\* the loop of parse_csv_line from index i (1-based) on
RECURSIVE ParseLoop(_, _, _, _, _)
ParseLoop(line, i, cur, cols, inQuotes) ==
    IF i > Len(line) THEN Append(cols, cur)
    ELSE IF inQuotes
         THEN IF line[i] = DQ
              THEN IF i + 1 <= Len(line) /\ line[i + 1] = DQ
                   THEN ParseLoop(line, i + 2, Append(cur, DQ), cols, TRUE)
                   ELSE ParseLoop(line, i + 1, cur, cols, FALSE)
              ELSE ParseLoop(line, i + 1, Append(cur, line[i]), cols, TRUE)
         ELSE IF line[i] = DQ
              THEN ParseLoop(line, i + 1, cur, cols, TRUE)
              ELSE IF line[i] = ","
                   THEN ParseLoop(line, i + 1, <<>>, Append(cols, cur), FALSE)
                   ELSE ParseLoop(line, i + 1, Append(cur, line[i]), cols,
                                  FALSE)

parse_csv_line(line) == ParseLoop(line, 1, <<>>, <<>>, FALSE)

\* the strings the codec is applied to: every string of at most MaxLen
\* characters over an ordinary character and the four special ones
CodecChars == {"a", ",", DQ, "\n", "\r"}

StringsUpTo(n) == UNION {[1..k -> CodecChars] : k \in 0..n}

CodecInit ==
    /\ cIn \in StringsUpTo(MaxLen)
    /\ cEsc = <<>>
    /\ cCols = <<>>
    /\ cpc = "in"

CodecEscape ==
    /\ cpc = "in"
    /\ cEsc' = csv_escape(cIn)
    /\ cpc' = "escaped"
    /\ UNCHANGED <<cIn, cCols, fvars, jvars, gvars, pvars>>

CodecParse ==
    /\ cpc = "escaped"
    /\ cCols' = parse_csv_line(cEsc)
    /\ cpc' = "parsed"
    /\ UNCHANGED <<cIn, cEsc, fvars, jvars, gvars, pvars>>

CodecNext == CodecEscape \/ CodecParse

----------------------------------------------------------------------------
(* src/Demo.cpp: FormValidator *)

Digits == {"0", "1", "2", "3", "4", "5", "6", "7", "8", "9"}
Lower == {"a", "b", "c", "d", "e", "f", "g", "h", "i", "j", "k", "l", "m",
          "n", "o", "p", "q", "r", "s", "t", "u", "v", "w", "x", "y", "z"}
Upper == {"A", "B", "C", "D", "E", "F", "G", "H", "I", "J", "K", "L", "M",
          "N", "O", "P", "Q", "R", "S", "T", "U", "V", "W", "X", "Y", "Z"}

DigitVal(c) ==
    CASE c = "0" -> 0 [] c = "1" -> 1 [] c = "2" -> 2 [] c = "3" -> 3
      [] c = "4" -> 4 [] c = "5" -> 5 [] c = "6" -> 6 [] c = "7" -> 7
      [] c = "8" -> 8 [] c = "9" -> 9

\* a label or a ValidationResult message: fieldName + text (+ the bounds)
Msg(fieldName, text, lo, hi) ==
    [field |-> fieldName, text |-> text, lo |-> lo, hi |-> hi]
NoMsg == Msg("", "", 0, 0)

\* ValidationResult(valid, msg); {true} has the empty message
Valid == [isValid |-> TRUE, message |-> NoMsg]
Invalid(m) == [isValid |-> FALSE, message |-> m]

required(value, fieldName) ==
    IF value = <<>> THEN Invalid(Msg(fieldName, " is required", 0, 0))
    ELSE Valid

\* as lengthRange, but without the test for the empty value
LengthRangeOfEmpty(value, minLen, maxLen, fieldName) ==
    IF Len(value) < minLen \/ Len(value) > maxLen
    THEN Invalid(Msg(fieldName, " must be between ... characters",
                     minLen, maxLen))
    ELSE Valid

lengthRange(value, minLen, maxLen, fieldName) ==
    IF value # <<>> /\ (Len(value) < minLen \/ Len(value) > maxLen)
    THEN Invalid(Msg(fieldName, " must be between ... characters",
                     minLen, maxLen))
    ELSE Valid

\* std::regex_match(value, re) for the one pattern the form uses,
\* "^[a-zA-Z0-9_.-]+$"
RegexMatch(value, pattern) ==
    /\ pattern = "^[a-zA-Z0-9_.-]+$"
    /\ value # <<>>
    /\ \A i \in 1..Len(value) :
           value[i] \in Lower \cup Upper \cup Digits \cup {"_", ".", "-"}

regex(value, pattern, fieldName) ==
    IF value # <<>> /\ ~RegexMatch(value, pattern)
    THEN Invalid(Msg(fieldName, " contains invalid characters", 0, 0))
    ELSE Valid

\* strtol / strtof skip leading white space, take an optional sign, then the
\* longest run of digits; what follows the number is ignored
RECURSIVE SkipSpace(_)
SkipSpace(s) ==
    IF s # <<>> /\ Head(s) \in {" ", "\t", "\n", "\r", "\f"}
    THEN SkipSpace(Tail(s)) ELSE s

Negative(s) == s # <<>> /\ Head(s) = "-"
Unsigned(s) == IF s # <<>> /\ Head(s) \in {"+", "-"} THEN Tail(s) ELSE s

RECURSIVE DigitRun(_)
DigitRun(s) ==
    IF s # <<>> /\ Head(s) \in Digits THEN 1 + DigitRun(Tail(s)) ELSE 0

RECURSIVE DecimalValue(_)
DecimalValue(ds) ==
    IF ds = <<>> THEN 0
    ELSE 10 * DecimalValue(SubSeq(ds, 1, Len(ds) - 1)) + DigitVal(ds[Len(ds)])

RECURSIVE Pow10(_)
Pow10(n) == IF n = 0 THEN 1 ELSE 10 * Pow10(n - 1)

\* the value of a run of digits, or -1 when it exceeds INT_MAX = 2147483647
RECURSIVE IntMagnitude(_, _)
IntMagnitude(ds, acc) ==
    IF ds = <<>> THEN acc
    ELSE IF acc > (2147483647 - DigitVal(Head(ds))) \div 10 THEN 0 - 1
         ELSE IntMagnitude(Tail(ds), 10 * acc + DigitVal(Head(ds)))

RECURSIVE StripZeros(_)
StripZeros(ds) ==
    IF ds # <<>> /\ Head(ds) = "0" THEN StripZeros(Tail(ds)) ELSE ds

\* std::stoi(value): throws (ok = FALSE) when no digit can be read or the
\* number does not fit an int
stoi(value) ==
    LET neg == Negative(SkipSpace(value))
        u == Unsigned(SkipSpace(value))
        k == DigitRun(u)
        ds == SubSeq(u, 1, k)
        mag == IntMagnitude(ds, 0)
    IN  IF k = 0 THEN [ok |-> FALSE, val |-> 0]
        ELSE IF mag >= 0
             THEN [ok |-> TRUE, val |-> IF neg THEN 0 - mag ELSE mag]
             ELSE IF neg /\ StripZeros(ds)
                            = <<"2", "1", "4", "7", "4", "8", "3", "6", "4", "8">>
                  THEN [ok |-> TRUE, val |-> (0 - 2147483647) - 1]
                  ELSE [ok |-> FALSE, val |-> 0]

\* std::stof(value) for plain decimal notation (digits with an optional
\* fraction; the inputs of this model use no exponent, hexadecimal, inf or
\* nan form and at most nine digits): the value is num / den
stof(value) ==
    LET u == Unsigned(SkipSpace(value))
        k == DigitRun(u)
        rest == SubSeq(u, k + 1, Len(u))
        f == IF rest # <<>> /\ Head(rest) = "." THEN DigitRun(Tail(rest))
             ELSE 0
        ip == DecimalValue(SubSeq(u, 1, k))
        fp == DecimalValue(SubSeq(u, k + 2, k + 1 + f))
        mag == ip * Pow10(f) + fp
    IN  IF k + f = 0 THEN [ok |-> FALSE, num |-> 0, den |-> 1]
        ELSE [ok |-> TRUE,
              num |-> IF Negative(SkipSpace(value)) THEN 0 - mag ELSE mag,
              den |-> Pow10(f)]

floatRange(value, min, max, fieldName) ==
    IF value # <<>>
    THEN IF ~stof(value).ok
         THEN Invalid(Msg(fieldName, " must be a valid number", 0, 0))
         ELSE IF stof(value).num < min * stof(value).den
                 \/ stof(value).num > max * stof(value).den
              THEN Invalid(Msg(fieldName, " must be between", min, max))
              ELSE Valid
    ELSE Valid

intRange(value, min, max, fieldName) ==
    IF value # <<>>
    THEN IF ~stoi(value).ok
         THEN Invalid(Msg(fieldName, " must be a valid integer", 0, 0))
         ELSE IF stoi(value).val < min \/ stoi(value).val > max
              THEN Invalid(Msg(fieldName, " must be between", min, max))
              ELSE Valid
    ELSE Valid

enumValue(value, allowedValues, fieldName) ==
    IF value # <<>> /\ value \notin allowedValues
    THEN Invalid(Msg(fieldName, " has an invalid value", 0, 0))
    ELSE Valid

----------------------------------------------------------------------------
(* src/Demo.cpp: MyFrame::ValidateField and the chains of OnAddDevice *)

\* the fields in the order OnAddDevice validates them (and renders them)
FieldOrder ==
    <<"Operator ID", "Instance ID", "App Version", "Device ID", "Device Name",
      "Status", "Action Type", "Voltage", "Temperature", "Severity",
      "UI Latency", "Notes">>
FieldNames == {FieldOrder[i] : i \in 1..Len(FieldOrder)}

Validator(kind, a, b, p, allowed) ==
    [kind |-> kind, a |-> a, b |-> b, p |-> p, allowed |-> allowed]

\* the validator lists passed to ValidateField, field by field
Validators(fieldName) ==
    CASE fieldName = "Operator ID" ->
            <<Validator("required", 0, 0, "", {}),
              Validator("lengthRange", 1, 64, "", {}),
              Validator("regex", 0, 0, "^[a-zA-Z0-9_.-]+$", {})>>
      [] fieldName = "Instance ID" ->
            <<Validator("lengthRange", 1, 64, "", {})>>
      [] fieldName = "App Version" ->
            <<Validator("lengthRange", 0, 32, "", {})>>
      [] fieldName = "Device ID" ->
            <<Validator("required", 0, 0, "", {})>>
      [] fieldName = "Device Name" ->
            <<Validator("lengthRange", 0, 128, "", {})>>
      [] fieldName = "Status" ->
            <<Validator("required", 0, 0, "", {}),
              Validator("enumValue", 0, 0, "",
                        {<<"Unknown">>, <<"Online">>, <<"Offline">>,
                         <<"Degraded">>})>>
      [] fieldName = "Action Type" ->
            <<Validator("required", 0, 0, "", {}),
              Validator("enumValue", 0, 0, "",
                        {<<"Check">>, <<"Maintenance">>, <<"Repair">>,
                         <<"Replace">>})>>
      [] fieldName = "Voltage" ->
            <<Validator("floatRange", 0, 10000, "", {})>>
      [] fieldName = "Temperature" ->
            <<Validator("floatRange", 0 - 50, 250, "", {})>>
      [] fieldName = "Severity" ->
            <<Validator("enumValue", 0, 0, "",
                        {<<"Low">>, <<"Medium">>, <<"High">>,
                         <<"Critical">>})>>
      [] fieldName = "UI Latency" ->
            <<Validator("intRange", 0, 600000, "", {})>>
      [] fieldName = "Notes" ->
            <<Validator("lengthRange", 0, 500, "", {})>>

\* validator(value, fieldName)
Call(validator, value, fieldName) ==
    CASE validator.kind = "required" -> required(value, fieldName)
      [] validator.kind = "lengthRange" ->
            lengthRange(value, validator.a, validator.b, fieldName)
      [] validator.kind = "regex" -> regex(value, validator.p, fieldName)
      [] validator.kind = "floatRange" ->
            floatRange(value, validator.a, validator.b, fieldName)
      [] validator.kind = "intRange" ->
            intRange(value, validator.a, validator.b, fieldName)
      [] validator.kind = "enumValue" ->
            enumValue(value, validator.allowed, fieldName)

\* ValidateField: the value it returns and the label it leaves in errorCtrl
RECURSIVE ValidateField(_, _, _)
ValidateField(value, fieldName, validators) ==
    IF validators = <<>> THEN [isValid |-> TRUE, label |-> NoMsg]
    ELSE LET result == Call(Head(validators), value, fieldName)
         IN  IF ~result.isValid
             THEN [isValid |-> FALSE, label |-> result.message]
             ELSE ValidateField(value, fieldName, Tail(validators))

\* as LabelsAfterValidation, but the pass stops at the first field in error:
\* the fields after it keep the empty label they were cleared to
LabelsUntilFirstError(values) ==
    [f \in FieldNames |->
        IF \E i \in 1..Len(FieldOrder) :
              /\ ~ValidateField(values[FieldOrder[i]], FieldOrder[i],
                                Validators(FieldOrder[i])).isValid
              /\ \E j \in (i + 1)..Len(FieldOrder) : FieldOrder[j] = f
        THEN NoMsg
        ELSE ValidateField(values[f], f, Validators(f)).label]

\* the twelve labels after the validation block of OnAddDevice
LabelsAfterValidation(values) ==
    [f \in FieldNames |-> ValidateField(values[f], f, Validators(f)).label]

\* as hasErrors, but each field's outcome overwrites the flag: the flag is
\* the outcome of the last field
HasErrorsOfLastField(values) ==
    ~ValidateField(values["Notes"], "Notes", Validators("Notes")).isValid

\* hasErrors after the validation block of OnAddDevice
hasErrors(values) ==
    \E f \in FieldNames : ~ValidateField(values[f], f, Validators(f)).isValid

----------------------------------------------------------------------------
(* src/unnamed/part_000: save_device_json and main *)

ObjIds == {"a", "b"}
\* the rendered object handed to save_device_json: an opaque string "{...}"
JsonObj(x) == <<"{", x, "}">>

\* content.find_last_not_of(" \t\r\n"), 1-based; 0 stands for npos
RECURSIVE EndPos(_)
EndPos(s) ==
    IF s = <<>> THEN 0
    ELSE IF s[Len(s)] \in {" ", "\t", "\r", "\n"}
         THEN EndPos(SubSeq(s, 1, Len(s) - 1))
         ELSE Len(s)

\* as ReadContent, but the content is not trimmed
ReadContentUntrimmed(f) == IF f.exists THEN f.data ELSE <<>>

\* `content` after the read-and-trim block
ReadContent(f) ==
    IF f.exists THEN SubSeq(f.data, 1, EndPos(f.data)) ELSE <<>>

\* as OutContent, but the closing bracket of the old array is kept
OutContentKeepsBracket(c, obj) ==
    IF c = <<>> \/ c = <<"[", "]">>
    THEN <<"[">> \o obj \o <<"]">>
    ELSE IF c # <<>> /\ Head(c) = "[" /\ c[Len(c)] = "]"
         THEN c \o <<",">> \o obj \o <<"]">>
         ELSE <<"[">> \o obj \o <<"]">>

\* `outContent` from the trimmed `content` and the object
OutContent(c, obj) ==
    IF c = <<>> \/ c = <<"[", "]">>
    THEN <<"[">> \o obj \o <<"]">>
    ELSE IF c # <<>> /\ Head(c) = "[" /\ c[Len(c)] = "]"
         THEN SubSeq(c, 1, Len(c) - 1) \o <<",">> \o obj \o <<"]">>
         ELSE <<"[">> \o obj \o <<"]">>

JUnchanged == UNCHANGED <<gvars, cvars, pvars>>

\* main, up to the call of save_device_json: a new run of the program
MainStart(x) ==
    /\ jpc \in {"idle", "crashed"}
    /\ runs < MaxRuns
    /\ runs' = runs + 1
    /\ json_obj' = JsonObj(x)
    /\ prevFile' = file
    /\ stepFailed' = FALSE
    /\ content' = <<>>
    /\ outContent' = <<>>
    /\ ec' = FALSE
    /\ ec2' = FALSE
    /\ jpc' = "read"
    /\ UNCHANGED <<file, tmp, exitCode, jlog, jclean>>
    /\ JUnchanged

\* read the existing file, trim it, compute outContent
JsonRead ==
    /\ jpc = "read"
    /\ content' = ReadContent(file)
    /\ outContent' = OutContent(ReadContent(file), json_obj)
    /\ jpc' = "write_tmp"
    /\ UNCHANGED <<file, tmp, json_obj, ec, ec2, exitCode, runs, prevFile,
                   stepFailed, jlog, jclean>>
    /\ JUnchanged

\* the result of std::ofstream out(temp); out << outContent; out.close():
\* the open refused (nothing touched), or the file truncated and the first n
\* characters written (n = Len(oc) when the stream never fails)
TempWritten(t, oc, opened, n) ==
    IF opened THEN FileOf(SubSeq(oc, 1, n)) ELSE t

JsonWriteTemp(opened, n) ==
    /\ jpc = "write_tmp"
    /\ opened \/ n = 0
    /\ tmp' = TempWritten(tmp, outContent, opened, n)
    /\ stepFailed' = (stepFailed \/ ~opened \/ n < Len(outContent))
    /\ jclean' = (jclean /\ opened /\ n = Len(outContent))
    /\ jpc' = "remove"
    /\ UNCHANGED <<file, json_obj, content, outContent, ec, ec2, exitCode,
                   runs, prevFile, jlog>>
    /\ JUnchanged

\* the destination after  if (fs::exists(p, ec)) fs::remove(p, ec);
DestRemoved(f, ok) == IF f.exists /\ ok THEN Absent ELSE f

JsonRemoveDest(ok) ==
    /\ jpc = "remove"
    /\ (~file.exists) => ok
    /\ file' = DestRemoved(file, ok)
    /\ stepFailed' = (stepFailed \/ ~ok)
    /\ jclean' = (jclean /\ ok)
    /\ jpc' = "rename"
    /\ UNCHANGED <<tmp, json_obj, content, outContent, ec, ec2, exitCode,
                   runs, prevFile, jlog>>
    /\ JUnchanged

\* fs::rename(temp, p, ec): moves the temporary file over the destination,
\* or fails (always when there is no temporary file) and sets ec
JsonRename(ok) ==
    /\ jpc = "rename"
    /\ ok => tmp.exists
    /\ IF ok
       THEN /\ file' = tmp
            /\ tmp' = Absent
            /\ ec' = FALSE
            /\ jpc' = "return"
            /\ UNCHANGED <<stepFailed, jclean>>
       ELSE /\ ec' = TRUE
            /\ jpc' = "copy"
            /\ stepFailed' = TRUE
            /\ jclean' = FALSE
            /\ UNCHANGED <<file, tmp>>
    /\ UNCHANGED <<json_obj, content, outContent, ec2, exitCode, runs,
                   prevFile, jlog>>
    /\ JUnchanged

\* the destination after fs::copy_file(temp, p, overwrite_existing, ec2)
Copied(f, t, ok) == IF ok /\ t.exists THEN FileOf(t.data) ELSE f

JsonCopy(ok) ==
    /\ jpc = "copy"
    /\ ok => tmp.exists
    /\ file' = Copied(file, tmp, ok)
    /\ ec2' = ~ok
    /\ jpc' = "remove_tmp"
    /\ UNCHANGED <<tmp, json_obj, content, outContent, ec, exitCode, runs,
                   prevFile, stepFailed, jlog, jclean>>
    /\ JUnchanged

\* as TempRemoved, but the call that removes the temporary file is missing
TempKept(t, ok) == t

\* the temporary file after fs::remove(temp, ec2): gone, or still there when
\* the removal is refused (the error code is dropped on return)
TempRemoved(t, ok) == IF ok THEN Absent ELSE t

\* fs::remove(temp, ec2); removing a file that is not there is no error
JsonRemoveTemp(ok) ==
    /\ jpc = "remove_tmp"
    /\ (~tmp.exists) => ok
    /\ tmp' = TempRemoved(tmp, ok)
    /\ ec2' = ~ok
    /\ jpc' = "return"
    /\ UNCHANGED <<file, json_obj, content, outContent, ec, exitCode, runs,
                   prevFile, stepFailed, jlog, jclean>>
    /\ JUnchanged

\* what main does once save_device_json has returned: no exception is ever
\* raised by it, so "Wrote device entry" is printed; then the file is read
\* back: exit code 0, or 3 when it cannot be opened
MainExit(f) == IF f.exists THEN 0 ELSE 3

MainFinish ==
    /\ jpc = "return"
    /\ exitCode' = MainExit(file)
    /\ jlog' = Append(jlog, json_obj)
    /\ jpc' = "idle"
    /\ UNCHANGED <<file, tmp, json_obj, content, outContent, ec, ec2, runs,
                   prevFile, stepFailed, jclean>>
    /\ JUnchanged

\* the process dies between two file steps of save_device_json
Crash ==
    /\ jpc \in {"write_tmp", "remove", "rename", "copy", "remove_tmp"}
    /\ jpc' = "crashed"
    /\ jclean' = FALSE
    /\ UNCHANGED <<file, tmp, json_obj, content, outContent, ec, ec2,
                   exitCode, runs, prevFile, stepFailed, jlog>>
    /\ JUnchanged

JsonNext ==
    \/ \E x \in ObjIds : MainStart(x)
    \/ JsonRead
    \/ \E opened \in BOOLEAN, n \in 0..Len(outContent) :
           JsonWriteTemp(opened, n)
    \/ \E ok \in BOOLEAN : JsonRemoveDest(ok)
    \/ \E ok \in BOOLEAN : JsonRename(ok)
    \/ \E ok \in BOOLEAN : JsonCopy(ok)
    \/ \E ok \in BOOLEAN : JsonRemoveTemp(ok)
    \/ MainFinish
    \/ Crash

JsonInit ==
    /\ file = Absent
    /\ tmp = Absent
    /\ jpc = "idle"
    /\ json_obj = <<>>
    /\ content = <<>>
    /\ outContent = <<>>
    /\ ec = FALSE
    /\ ec2 = FALSE
    /\ exitCode = 0
    /\ runs = 0
    /\ prevFile = Absent
    /\ stepFailed = FALSE
    /\ jlog = <<>>
    /\ jclean = TRUE

----------------------------------------------------------------------------
(* src/Demo.cpp: save_device_csv, OnAddDevice and its background task *)

HeaderCols ==
    <<"uuid", "created_at", "operator_id", "instance_id", "app_version",
      "device_id", "device_name", "status", "action_type", "voltage",
      "temperature", "severity", "ui_latency_ms", "notes">>

RECURSIVE JoinComma(_)
JoinComma(cols) ==
    IF cols = <<>> THEN <<>>
    ELSE IF Len(cols) = 1 THEN Head(cols)
         ELSE Head(cols) \o <<",">> \o JoinComma(Tail(cols))

\* the header line save_device_csv writes, without its "\n"
HeaderLine == JoinComma([i \in 1..Len(HeaderCols) |-> <<HeaderCols[i]>>])

\* as save_device_csv, but the header is written on every call
SaveAlwaysWritesHeader(f, csv_row, opens) ==
    IF ~opens THEN [file |-> f, threw |-> TRUE]
    ELSE [file |-> FileOf(f.data \o HeaderLine \o <<"\n">> \o csv_row
                          \o <<"\n">>),
          threw |-> FALSE]

\* as save_device_csv, but a failed open still leaves a created, empty file
SaveCreatesOnFailure(f, csv_row, opens) ==
    IF ~opens THEN [file |-> FileOf(f.data), threw |-> TRUE]
    ELSE [file |-> FileOf((IF f.exists THEN f.data
                           ELSE HeaderLine \o <<"\n">>)
                          \o csv_row \o <<"\n">>),
          threw |-> FALSE]

\* save_device_csv(path, csv_row): the file it leaves and whether it threw;
\* `opens` is whether the ofstream could be opened for append
save_device_csv(f, csv_row, opens) ==
    IF ~opens THEN [file |-> f, threw |-> TRUE]
    ELSE [file |-> FileOf((IF f.exists THEN f.data
                           ELSE HeaderLine \o <<"\n">>)
                          \o csv_row \o <<"\n">>),
          threw |-> FALSE]

\* as BuildRow, but deviceName is appended before deviceId
BuildRowSwapped(pair, values) ==
    JoinComma(<<csv_escape(pair[1]), csv_escape(pair[2])>>
              \o [i \in 1..Len(FieldOrder) |->
                     csv_escape(values[CASE FieldOrder[i] = "Device ID"
                                              -> "Device Name"
                                         [] FieldOrder[i] = "Device Name"
                                              -> "Device ID"
                                         [] OTHER -> FieldOrder[i]])])

\* the row the posted closure builds from (uuid, ts) and the captured fields
BuildRow(pair, values) ==
    JoinComma(<<csv_escape(pair[1]), csv_escape(pair[2])>>
              \o [i \in 1..Len(FieldOrder) |->
                     csv_escape(values[FieldOrder[i]])])

\* generate_uuid_v4() and current_timestamp(): any of a few values
Uuids == {<<"u1">>, <<"u2">>}
Timestamps == {<<"t1">>}

\* the threads of execution
UiThread == "ui"
AsyncThread == "async"
WorkerThread == "worker"

\* as LambdaThread, but the closure runs inline on the detached thread
LambdaThreadInline == WorkerThread

\* the thread that runs a closure handed to wxTheApp->CallAfter
LambdaThread == UiThread

\* as GotPair, but every thread reads the first submission's future
GotPairOfFirst(i) == fut[1].pair

\* auto pair = fut.get() in the detached thread of submission i
GotPair(i) == fut[i].pair

\* as Notified, but only a successful save shows a message box
NotifiedOnSuccessOnly(boxes, i, threw, opened) ==
    IF threw THEN boxes
    ELSE Append(boxes, [sub |-> i, kind |-> "Success", opened |-> opened])

\* the message boxes after the try/catch around save_device_csv: the success
\* box when it returned, the error box when it threw (`opened` is history)
Notified(boxes, i, threw, opened) ==
    Append(boxes, [sub |-> i,
                   kind |-> IF threw THEN "Error" ELSE "Success",
                   opened |-> opened])

Rep(c, n) == [i \in 1..n |-> c]

\* the form as the constructor leaves it, with the two required fields filled
BaseForm ==
    [f \in FieldNames |->
        CASE f = "Operator ID" -> <<"o", "p", "s", ".", "1">>
          [] f = "App Version" -> <<"1", ".", "0", ".", "0">>
          [] f = "Device ID" -> <<"d", "e", "v", "-", "7">>
          [] f = "Status" -> <<"Online">>
          [] f = "Action Type" -> <<"Check">>
          [] f = "Severity" -> <<"Low">>
          [] f = "UI Latency" -> <<"0">>
          [] OTHER -> <<>>]

\* the field values a click on Add may find in the form: the base form and
\* edits of it that make each kind of constraint fail, alone and together
Forms ==
    {BaseForm,
     [BaseForm EXCEPT !["Notes"] = <<"a", ",", DQ, "\n", "b">>],
     [BaseForm EXCEPT !["Voltage"] = <<"1", "2", ".", "3">>,
                      !["Temperature"] = <<"3", "6", ".", "5">>,
                      !["App Version"] = <<>>, !["UI Latency"] = <<>>],
     [BaseForm EXCEPT !["Operator ID"] = <<>>],
     [BaseForm EXCEPT !["Operator ID"] = <<"a", " ", "b">>],
     [BaseForm EXCEPT !["Operator ID"] = Rep("!", 65)],
     [BaseForm EXCEPT !["Device ID"] = <<>>],
     [BaseForm EXCEPT !["Operator ID"] = <<>>, !["Device ID"] = <<>>],
     [BaseForm EXCEPT !["Voltage"] = <<"2", "0", "0", "0", "0">>,
                      !["Temperature"] = <<"3", "6", ".", "5">>],
     [BaseForm EXCEPT !["UI Latency"] = <<"6", "0", "0", "0", "0", "1">>],
     [BaseForm EXCEPT !["Notes"] = Rep("n", 501)],
     [BaseForm EXCEPT !["Instance ID"] = Rep("a", 65),
                      !["App Version"] = Rep("1", 33),
                      !["Device Name"] = Rep("n", 129),
                      !["Voltage"] = <<"a", "b", "c">>,
                      !["Temperature"] = <<"-", "5", "1">>,
                      !["UI Latency"] = <<"x">>]}

\* the outcome of the validation block for each form, computed once
Validated ==
    [values \in Forms |->
        [labels |-> LabelsAfterValidation(values),
         hasErrors |-> hasErrors(values)]]

\* as Disable, but the call is missing: the button stays as it was, enabled
DisableMissing == TRUE

\* the state of m_addBtn after m_addBtn->Disable() and m_addBtn->Enable()
Disable == FALSE
Enable == TRUE

UiIdle == [sub |-> 0, threw |-> FALSE, opened |-> TRUE, before |-> Absent]

GUnchanged == UNCHANGED <<tmp, jvars, cvars, pvars>>

\* a click on the Add button (delivered only while the button is enabled):
\* validate every field; on success disable the button, launch the
\* std::async task and the detached thread
OnAddDevice(values) ==
    /\ addBtnEnabled
    /\ uiPc = UiIdle
    /\ Validated[values].hasErrors \/ Len(subs) < MaxSubmissions
    /\ errLabel' = Validated[values].labels
    /\ IF Validated[values].hasErrors
       THEN UNCHANGED <<addBtnEnabled, subs, fut, thr>>
       ELSE /\ addBtnEnabled' = Disable
            /\ subs' = Append(subs, [values |-> values, caller |-> UiThread])
            /\ fut' = Append(fut, [state |-> "running", pair |-> <<>>,
                                   by |-> AsyncThread])
            /\ thr' = Append(thr, [pc |-> "get", pair |-> <<>>,
                                   by |-> WorkerThread])
    /\ lastOp' = [op |-> "add", values |-> values,
                  started |-> Len(subs') > Len(subs)]
    /\ UNCHANGED <<file, uiQueue, uiPc, msgBoxes, written>>
    /\ GUnchanged

\* the std::async task: generate_uuid_v4() and current_timestamp()
GenerateIdentity(i, uuid, ts) ==
    /\ i \in 1..Len(fut)
    /\ fut[i].state = "running"
    /\ fut' = [fut EXCEPT ![i].state = "ready", ![i].pair = <<uuid, ts>>]
    /\ UNCHANGED <<file, errLabel, addBtnEnabled, subs, thr, uiQueue, uiPc,
                   msgBoxes, lastOp, written>>
    /\ GUnchanged

\* the detached thread: fut.get() returns once the task has finished
ThreadGet(i) ==
    /\ i \in 1..Len(thr)
    /\ thr[i].pc = "get"
    /\ fut[i].state = "ready"
    /\ thr' = [thr EXCEPT ![i].pc = "post", ![i].pair = GotPair(i)]
    /\ UNCHANGED <<file, errLabel, addBtnEnabled, subs, fut, uiQueue, uiPc,
                   msgBoxes, lastOp, written>>
    /\ GUnchanged

\* the detached thread: wxTheApp->CallAfter(closure), then the thread ends
ThreadCallAfter(i) ==
    /\ i \in 1..Len(thr)
    /\ thr[i].pc = "post"
    /\ uiQueue' = Append(uiQueue, [sub |-> i, pair |-> thr[i].pair])
    /\ thr' = [thr EXCEPT ![i].pc = "done"]
    /\ UNCHANGED <<file, errLabel, addBtnEnabled, subs, fut, uiPc, msgBoxes,
                   lastOp, written>>
    /\ GUnchanged

\* the posted closure, first half: build the row and call save_device_csv
UiSave(opens) ==
    /\ uiPc = UiIdle
    /\ uiQueue # <<>>
    /\ LET c == Head(uiQueue)
           row == BuildRow(c.pair, subs[c.sub].values)
           saved == save_device_csv(file, row, opens)
       IN  /\ file' = saved.file
           /\ written' = IF saved.threw THEN written
                         ELSE Append(written, [sub |-> c.sub, row |-> row,
                                               by |-> LambdaThread])
           /\ uiPc' = [sub |-> c.sub, threw |-> saved.threw,
                       opened |-> opens, before |-> file]
    /\ uiQueue' = Tail(uiQueue)
    /\ UNCHANGED <<errLabel, addBtnEnabled, subs, fut, thr, msgBoxes, lastOp>>
    /\ GUnchanged

\* the posted closure, second half: the message box, then m_addBtn->Enable()
UiNotify ==
    /\ uiPc # UiIdle
    /\ msgBoxes' = Notified(msgBoxes, uiPc.sub, uiPc.threw, uiPc.opened)
    /\ addBtnEnabled' = Enable
    /\ uiPc' = UiIdle
    /\ UNCHANGED <<file, errLabel, subs, fut, thr, uiQueue, lastOp, written>>
    /\ GUnchanged

\* a click on the Clear button: every error label is emptied
OnClearFields ==
    /\ uiPc = UiIdle
    /\ errLabel' = [f \in FieldNames |-> NoMsg]
    /\ lastOp' = [op |-> "clear", values |-> BaseForm, started |-> FALSE]
    /\ UNCHANGED <<file, addBtnEnabled, subs, fut, thr, uiQueue, uiPc,
                   msgBoxes, written>>
    /\ GUnchanged

Next ==
    \/ \E values \in Forms : OnAddDevice(values)
    \/ \E i \in 1..MaxSubmissions, uuid \in Uuids, ts \in Timestamps :
           GenerateIdentity(i, uuid, ts)
    \/ \E i \in 1..MaxSubmissions : ThreadGet(i)
    \/ \E i \in 1..MaxSubmissions : ThreadCallAfter(i)
    \/ \E opens \in BOOLEAN : UiSave(opens)
    \/ UiNotify
    \/ OnClearFields

GuiInit ==
    /\ errLabel = [f \in FieldNames |-> NoMsg]
    /\ addBtnEnabled = TRUE
    /\ subs = <<>>
    /\ fut = <<>>
    /\ thr = <<>>
    /\ uiQueue = <<>>
    /\ uiPc = UiIdle
    /\ msgBoxes = <<>>
    /\ lastOp = [op |-> "none", values |-> BaseForm, started |-> FALSE]
    /\ written = <<>>

----------------------------------------------------------------------------
(* src/Demo.cpp: one FormValidator constraint applied to one value *)

StringsOver(chars, n) == UNION {[1..k -> chars] : k \in 0..n}

\* the values a constraint is applied to: every string of at most MaxLen
\* characters over digits, a point, a letter, a blank and a sign, and a few
\* longer ones
ValidatorChars == {"1", "2", "5", ".", "a", " ", "-"}

ValidatorInputs ==
    StringsOver(ValidatorChars, MaxLen)
        \cup {<<"1", "2", ".", "5">>, <<"1", "2", "a", "b", "c">>,
              <<"6", "0", "0", "0", "0", "0">>,
              <<"6", "0", "0", "0", "0", "1">>, <<"Online">>}

\* the constraints as OnAddDevice binds them, and a few other parameters
ValidatorCalls ==
    {Validator("required", 0, 0, "", {}),
     Validator("regex", 0, 0, "^[a-zA-Z0-9_.-]+$", {}),
     Validator("enumValue", 0, 0, "",
               {<<"Unknown">>, <<"Online">>, <<"Offline">>, <<"Degraded">>}),
     Validator("enumValue", 0, 0, "", {})}
        \cup {Validator("lengthRange", a, b, "", {}) :
                 a \in {0, 1, 2}, b \in {2, 64}}
        \cup {Validator("floatRange", a, b, "", {}) :
                 a \in {0, 0 - 50}, b \in {1, 250, 10000}}
        \cup {Validator("intRange", a, b, "", {}) :
                 a \in {0, 5}, b \in {12, 600000}}

NoCall == Validator("none", 0, 0, "", {})

ValidatorInit ==
    /\ vValue \in ValidatorInputs
    /\ vCall = NoCall
    /\ vResult = Valid
    /\ vpc = "in"

\* result = validator(value, fieldName), as in the loop of ValidateField
ValidatorApply(validator) ==
    /\ vpc = "in"
    /\ vCall' = validator
    /\ vResult' = Call(validator, vValue, "Field")
    /\ vpc' = "applied"
    /\ UNCHANGED <<vValue, eIn, eOut, epc, fvars, jvars, gvars, cvars>>

ValidatorNext == \E validator \in ValidatorCalls : ValidatorApply(validator)

\* the constraint variables while no constraint is being applied
ValidatorIdle ==
    /\ vValue = <<>>
    /\ vCall = NoCall
    /\ vResult = Valid
    /\ vpc = "off"

----------------------------------------------------------------------------
(* src/unnamed/part_000 (and the same text in src/Demo.cpp): json_escape *)

\* the code of a character: the characters below 0x20 by their code, 32
\* standing for the code of every character from 0x20 on ("NUL", "SOH", "BS",
\* "US" and "DEL" are the characters 0x00, 0x01, 0x08, 0x1f and 0x7f)
CharCode(c) ==
    CASE c = "NUL" -> 0 [] c = "SOH" -> 1 [] c = "BS" -> 8 [] c = "\t" -> 9
      [] c = "\n" -> 10 [] c = "\f" -> 12 [] c = "\r" -> 13 [] c = "US" -> 31
      [] OTHER -> 32

HexDigit(d) ==
    <<"0", "1", "2", "3", "4", "5", "6", "7", "8", "9", "a", "b", "c", "d",
      "e", "f">>[d + 1]

\* o << std::hex << n
RECURSIVE Hex(_)
Hex(n) ==
    IF n < 16 THEN <<HexDigit(n)>>
    ELSE Hex(n \div 16) \o <<HexDigit(n % 16)>>

\* std::setw(w) << std::setfill(fill) applied to the text of a number
SetWidth(txt, w, fill) ==
    IF Len(txt) >= w THEN txt ELSE Rep(fill, w - Len(txt)) \o txt

\* as EscapeChar, but the case for the backslash is missing
EscapeCharNoBackslash(c) ==
    CASE c = DQ -> <<"\\", DQ>>
      [] c = "BS" -> <<"\\", "b">>
      [] c = "\f" -> <<"\\", "f">>
      [] c = "\n" -> <<"\\", "n">>
      [] c = "\r" -> <<"\\", "r">>
      [] c = "\t" -> <<"\\", "t">>
      [] OTHER -> IF CharCode(c) < 32
                  THEN <<"\\", "u">> \o SetWidth(Hex(CharCode(c)), 4, "0")
                  ELSE <<c>>

\* what the switch of json_escape writes for one character
EscapeChar(c) ==
    CASE c = DQ -> <<"\\", DQ>>
      [] c = "\\" -> <<"\\", "\\">>
      [] c = "BS" -> <<"\\", "b">>
      [] c = "\f" -> <<"\\", "f">>
      [] c = "\n" -> <<"\\", "n">>
      [] c = "\r" -> <<"\\", "r">>
      [] c = "\t" -> <<"\\", "t">>
      [] OTHER -> IF CharCode(c) < 32
                  THEN <<"\\", "u">> \o SetWidth(Hex(CharCode(c)), 4, "0")
                  ELSE <<c>>

RECURSIVE json_escape(_)
json_escape(s) ==
    IF s = <<>> THEN <<>> ELSE EscapeChar(Head(s)) \o json_escape(Tail(s))

EscapeChars ==
    {"a", "u", DQ, "\\", "BS", "\f", "\n", "\r", "\t", "NUL", "US", "DEL"}

EscapeInit ==
    /\ eIn \in StringsOver(EscapeChars, MaxLen)
    /\ eOut = <<>>
    /\ epc = "in"

JsonEscape ==
    /\ epc = "in"
    /\ eOut' = json_escape(eIn)
    /\ epc' = "escaped"
    /\ UNCHANGED <<eIn, vValue, vCall, vResult, vpc, fvars, jvars, gvars,
                   cvars>>

EscapeNext == JsonEscape

\* the json_escape variables while no string is being escaped
EscapeIdle ==
    /\ eIn = <<>>
    /\ eOut = <<>>
    /\ epc = "off"

\* the codec variables while no string is being converted
CodecIdle ==
    /\ cIn = <<>>
    /\ cEsc = <<>>
    /\ cCols = <<>>
    /\ cpc = "off"

Init ==
    JsonInit /\ GuiInit /\ CodecIdle /\ ValidatorIdle /\ EscapeIdle

Spec == Init /\ [][Next]_vars

\* the threads and the UI event loop keep running: a started task, a thread
\* that can proceed and a posted closure are each eventually run
Fairness ==
    /\ \A i \in 1..MaxSubmissions :
          /\ WF_vars(\E uuid \in Uuids, ts \in Timestamps :
                         GenerateIdentity(i, uuid, ts))
          /\ WF_vars(ThreadGet(i))
          /\ WF_vars(ThreadCallAfter(i))
    /\ WF_vars(\E opens \in BOOLEAN : UiSave(opens))
    /\ WF_vars(UiNotify)

SpecLive == Init /\ [][Next]_vars /\ Fairness

\* part_000 alone: the form is never used
InitJson ==
    JsonInit /\ GuiInit /\ CodecIdle /\ ValidatorIdle /\ EscapeIdle

SpecJson == InitJson /\ [][JsonNext]_vars

\* what a run of part_000 may find at the destination: nothing, or any text
\* of at most MaxLen characters over brackets, commas, blanks, line ends and
\* a character x of an element, or one of a few longer texts
JsonChars == {"[", "]", ",", " ", "\n", "x"}

PriorContents ==
    StringsOver(JsonChars, MaxLen)
        \cup {<<"[", "x", "]", "\n">>, <<"[", "x", ",", "x", "]">>,
              <<"[", "x", ",", "x", "]", " ", "\n">>,
              <<"[", "{", "b", "}", "]">>, <<" ", "[", "x", "]">>}

PriorFiles == {Absent} \cup {FileOf(d) : d \in PriorContents}

\* one run of part_000 over whatever is at the destination; the runs before
\* it, and the other writers of the file, are not followed
InitJsonAny ==
    /\ file \in PriorFiles
    /\ tmp = Absent
    /\ jpc = "idle"
    /\ json_obj = <<>>
    /\ content = <<>>
    /\ outContent = <<>>
    /\ ec = FALSE
    /\ ec2 = FALSE
    /\ exitCode = 0
    /\ runs = MaxRuns - 1
    /\ prevFile = Absent
    /\ stepFailed = FALSE
    /\ jlog = <<>>
    /\ jclean = TRUE
    /\ GuiInit /\ CodecIdle /\ ValidatorIdle /\ EscapeIdle

SpecJsonAny == InitJsonAny /\ [][JsonNext]_vars

\* get_appdata_devices_path() of src/Demo.cpp and of part_000: the directory
\* and the file name joined by dir / "devices.csv"
get_appdata_devices_path ==
    <<"V:\\PersonalCodeBase\\MiniGridMonitor", "devices.csv">>
get_appdata_devices_path_json ==
    <<"V:\\PersonalCodeBase\\MiniGridMonitor", "devices.csv">>

\* the form and part_000 at work on the one file both paths name, every
\* append and every rewrite running to its end with no failed file step
NextShared ==
    \/ \E values \in {BaseForm} : OnAddDevice(values)
    \/ \E i \in 1..MaxSubmissions, uuid \in {<<"u1">>}, ts \in Timestamps :
           GenerateIdentity(i, uuid, ts)
    \/ \E i \in 1..MaxSubmissions : ThreadGet(i)
    \/ \E i \in 1..MaxSubmissions : ThreadCallAfter(i)
    \/ UiSave(TRUE)
    \/ UiNotify
    \/ MainStart("a")
    \/ JsonRead
    \/ JsonWriteTemp(TRUE, Len(outContent))
    \/ JsonRemoveDest(TRUE)
    \/ JsonRename(TRUE)
    \/ MainFinish

InitShared ==
    JsonInit /\ GuiInit /\ CodecIdle /\ ValidatorIdle /\ EscapeIdle

SpecShared == InitShared /\ [][NextShared]_vars

\* the constraints of FormValidator alone
InitValidators ==
    ValidatorInit /\ JsonInit /\ GuiInit /\ CodecIdle /\ EscapeIdle

SpecValidators == InitValidators /\ [][ValidatorNext]_vars

\* json_escape alone
InitEscape ==
    EscapeInit /\ JsonInit /\ GuiInit /\ CodecIdle /\ ValidatorIdle

SpecEscape == InitEscape /\ [][EscapeNext]_vars

----------------------------------------------------------------------------
(* Claims about the CSV store and the background submission *)

RECURSIVE RowsText(_)
RowsText(ws) ==
    IF ws = <<>> THEN <<>>
    ELSE Head(ws).row \o <<"\n">> \o RowsText(Tail(ws))

HeaderCount(data) == Cardinality({i \in 1..Len(data) : data[i] = "uuid"})

\* the number of line ends of data that lie outside a quoted field (an even
\* number of double quotes before them): the lines a CSV reader sees
LineEnds(data) ==
    Cardinality({i \in 1..Len(data) :
                    /\ data[i] = "\n"
                    /\ Cardinality({j \in 1..(i - 1) : data[j] = DQ}) % 2 = 0})

\* C3: from an absent path, after N >= 1 CSV appends of rows built from
\* validated records, the file is one header line, written by the first
\* append and never again, followed by the N rows in the order they were
\* written, each ended by "\n": N + 1 lines for a CSV reader (a line break
\* inside a quoted notes value does not end a line).
C3_OneHeaderThenRows ==
    IF written = <<>> THEN ~file.exists
    ELSE /\ file.exists
         /\ file.data = HeaderLine \o <<"\n">> \o RowsText(written)
         /\ HeaderCount(file.data) = 1
         /\ LineEnds(file.data) = Len(written) + 1

C3_Witness ==
    /\ Len(written) >= 2
    /\ written[1].row # written[2].row
    /\ \E i \in 1..Len(written[2].row) : written[2].row[i] = "\n"
    /\ uiPc = UiIdle

NotifiedCount(i) ==
    Cardinality({k \in 1..Len(msgBoxes) : msgBoxes[k].sub = i})

\* C5: every submission that passed validation and started its background
\* task eventually completes, and its completion notification (success or
\* failure) is shown exactly once, whether the write succeeds or fails.
C5_CompletesExactlyOnce ==
    /\ [](\A i \in 1..Len(subs) : NotifiedCount(i) <= 1)
    /\ \A i \in 1..MaxSubmissions :
          (i <= Len(subs)) ~> (NotifiedCount(i) = 1)

C5_Witness ==
    /\ Len(msgBoxes) = 2
    /\ msgBoxes[1].kind = "Error"
    /\ msgBoxes[2].kind = "Success"
    /\ msgBoxes[1].sub # msgBoxes[2].sub

Phase(i) ==
    IF i > Len(subs) THEN "Idle"
    ELSE IF NotifiedCount(i) > 0 THEN "Completed"
         ELSE IF uiPc.sub = i THEN "Writing"
              ELSE "GeneratingIdentity"

\* every chain of the form passes, said without ValidateField
AllChainsPass(values) ==
    \A f \in FieldNames : \A i \in 1..Len(Validators(f)) :
        Call(Validators(f)[i], values[f], f).isValid

WrittenFromOwnIdentity ==
    \A k \in 1..Len(written) :
        /\ fut[written[k].sub].state = "ready"
        /\ parse_csv_line(written[k].row)[1] = fut[written[k].sub].pair[1]
        /\ parse_csv_line(written[k].row)[2] = fut[written[k].sub].pair[2]
        /\ AllChainsPass(subs[written[k].sub].values)

\* C6: a submission goes through Idle, GeneratingIdentity, Writing, Completed
\* in that order only; a row is written only once that submission's identity
\* has been generated and its fields have passed validation, and the id and
\* created_at of the row are the pair its own generation task produced.
C6_PhaseOrderAndOwnIdentity ==
    /\ []WrittenFromOwnIdentity
    /\ [][\A i \in 1..MaxSubmissions :
            (Phase(i)' # Phase(i)) =>
                <<Phase(i), Phase(i)'>> \in
                    {<<"Idle", "GeneratingIdentity">>,
                     <<"GeneratingIdentity", "Writing">>,
                     <<"Writing", "Completed">>}]_vars

C6_Witness ==
    /\ Len(written) = 2
    /\ fut[1].pair # fut[2].pair
    /\ Phase(1) = "Completed"
    /\ Phase(2) = "Writing"

\* C7 as claimed: the store write of every submission is executed on a
\* thread other than the caller's (UI) thread.
C7_WriteOffCallerThread ==
    \A k \in 1..Len(written) : written[k].by # subs[written[k].sub].caller

\* C7 as amended: identity generation and the wait for it run off the
\* caller's UI thread, and the store write is handed back with CallAfter and
\* executed on the caller's UI thread.
C7_WriteOnUiThread ==
    /\ \A i \in 1..Len(subs) :
          /\ fut[i].by # subs[i].caller
          /\ thr[i].by # subs[i].caller
    /\ \A k \in 1..Len(written) : written[k].by = subs[written[k].sub].caller

C7_Witness ==
    /\ Len(written) >= 1
    /\ written[1].by = UiThread

\* C9: when the CSV file cannot be opened for append, the submission ends
\* with the failure notification, not the success one, and nothing is
\* written: the file (absent or not) is as it was before the call.
C9_OpenFailureWritesNothing ==
    /\ (uiPc # UiIdle /\ ~uiPc.opened) => (uiPc.threw /\ file = uiPc.before)
    /\ \A k \in 1..Len(msgBoxes) :
          (~msgBoxes[k].opened) => (msgBoxes[k].kind = "Error")

C9_Witness ==
    /\ Len(msgBoxes) = 2
    /\ msgBoxes[1].opened
    /\ ~msgBoxes[2].opened
    /\ msgBoxes[2].kind = "Error"
    /\ file.exists
    /\ Len(written) = 1

\* the message of the first constraint of the chain that fails, if any
FirstFailure(value, f) ==
    LET bad == {i \in 1..Len(Validators(f)) :
                    ~Call(Validators(f)[i], value, f).isValid}
    IN  IF bad = {} THEN NoMsg
        ELSE Call(Validators(f)[CHOOSE i \in bad : \A j \in bad : i <= j],
                  value, f).message

\* C10: one validation pass evaluates every field's chain whatever the other
\* fields do; each label carries the message of the first failing constraint
\* of its chain (or nothing); the submission starts if and only if every
\* chain passes; with operator id and device id both empty both labels carry
\* the 'required' message.
C10_CollectAllFirstFailure ==
    (lastOp.op = "add") =>
        /\ \A f \in FieldNames :
              errLabel[f] = FirstFailure(lastOp.values[f], f)
        /\ AllChainsPass(lastOp.values) <=>
              (/\ Len(subs) >= 1
               /\ subs[Len(subs)].values = lastOp.values
               /\ lastOp.started)
        /\ (lastOp.values["Operator ID"] = <<>>
            /\ lastOp.values["Device ID"] = <<>>) =>
              /\ errLabel["Operator ID"]
                    = Msg("Operator ID", " is required", 0, 0)
              /\ errLabel["Device ID"] = Msg("Device ID", " is required", 0, 0)

C10_Witness ==
    /\ lastOp.op = "add"
    /\ lastOp.values["Operator ID"] = <<>>
    /\ lastOp.values["Device ID"] = <<>>
    /\ errLabel["Operator ID"].text = " is required"
    /\ errLabel["Device ID"].text = " is required"
    /\ Len(subs) = 1

----------------------------------------------------------------------------
(* Claims about the JSON array rewrite *)

\* the content save_device_json is asked to leave at the destination
NewFile == FileOf(OutContent(ReadContent(prevFile), json_obj))

InsideSave ==
    jpc \in {"read", "write_tmp", "remove", "rename", "copy", "remove_tmp",
             "return", "crashed"}

\* C1: at every step between the start and the end of save_device_json (so
\* also after a crash at that step) the destination holds the complete
\* previous content or the complete new content.  Stated here for the runs
\* in which no file step has failed, which the code already breaks.
C1_DestinationOldOrNew ==
    (InsideSave /\ (jclean \/ jpc = "crashed") /\ ~stepFailed)
        => (file = prevFile \/ file = NewFile)

\* the array "[o1,o2,...,on]" of the objects os, n >= 1
RECURSIVE JoinObjects(_)
JoinObjects(os) ==
    IF Len(os) = 1 THEN Head(os)
    ELSE Head(os) \o <<",">> \o JoinObjects(Tail(os))

ArrayOf(os) == <<"[">> \o JoinObjects(os) \o <<"]">>

\* C2: from an absent path, after N >= 1 appends made one after another, each
\* run to its end with every file step succeeding, the file is the one array
\* of exactly those N objects in the order of the appends; this holds after
\* each individual append.
C2_SequentialAppends ==
    (jpc = "idle" /\ jclean /\ Len(jlog) >= 1)
        => (file.exists /\ file.data = ArrayOf(jlog))

C2_Witness ==
    /\ jpc = "idle"
    /\ jclean
    /\ Len(jlog) >= 2
    /\ jlog[1] # jlog[2]
    /\ file.data = ArrayOf(jlog)

\* C8: whenever a file step of the rewrite fails, the caller is told of a
\* store failure and the destination still holds the complete previous
\* content.
C8_FailureReportedAndNothingLost ==
    (jpc = "idle" /\ runs >= 1 /\ stepFailed)
        => (exitCode # 0 /\ file = prevFile)

\* the codec functions alone
InitCodec ==
    CodecInit /\ JsonInit /\ GuiInit /\ ValidatorIdle /\ EscapeIdle

SpecCodec == InitCodec /\ [][CodecNext]_vars

----------------------------------------------------------------------------
(* Claims about the CSV codec *)

HasSpecial(s) == \E i \in 1..Len(s) : s[i] \in {DQ, ",", "\n", "\r"}

RECURSIVE Doubled(_)
Doubled(s) ==
    IF s = <<>> THEN <<>>
    ELSE (IF Head(s) = DQ THEN <<DQ, DQ>> ELSE <<Head(s)>>) \o Doubled(Tail(s))

\* C4: for every string s, parsing csv_escape(s) gives the one-column list
\* [s]; a value with a comma, a double quote or a line break is wrapped in
\* double quotes with its inner double quotes doubled; any other value is
\* emitted verbatim.
C4_EscapeParseRoundTrip ==
    /\ (cpc = "parsed") => (cCols = <<cIn>>)
    /\ (cpc \in {"escaped", "parsed"}) =>
          (cEsc = IF HasSpecial(cIn) THEN <<DQ>> \o Doubled(cIn) \o <<DQ>>
                  ELSE cIn)

----------------------------------------------------------------------------
(* Claims about validation *)

\* the parts of the state a submission that starts would change
Started == <<addBtnEnabled, subs, fut, thr, uiQueue, file, written>>

\* C11: every record written to the log passed every field chain at
\* submission time; a click on Add with at least one failing chain generates
\* no identity, starts no background task, writes nothing, and leaves the log
\* and the Add button as they were.
C11_NoWriteOnValidationFailure ==
    /\ [](\A k \in 1..Len(written) :
             AllChainsPass(subs[written[k].sub].values))
    /\ [][\A values \in Forms :
            (OnAddDevice(values) /\ ~AllChainsPass(values))
                => UNCHANGED Started]_vars

C11_Witness ==
    /\ lastOp.op = "add"
    /\ ~AllChainsPass(lastOp.values)
    /\ ~lastOp.started
    /\ Len(written) = 1
    /\ Len(subs) = 1
    /\ addBtnEnabled
    /\ \E f \in FieldNames : errLabel[f] # NoMsg

\* C12: required fails exactly on the empty value; lengthRange, regex,
\* floatRange, intRange and enumValue pass on the empty value whatever their
\* parameters, lengthRange with a minimum length of 1 included.
C12_RequiredIffEmptyOthersPassEmpty ==
    (vpc = "applied") =>
        /\ (vCall.kind = "required") => (~vResult.isValid <=> vValue = <<>>)
        /\ (vCall.kind # "required" /\ vValue = <<>>) => vResult.isValid

C12_Witness ==
    /\ vpc = "applied"
    /\ vValue = <<>>
    /\ vCall.kind = "lengthRange"
    /\ vCall.a = 1
    /\ vResult.isValid

----------------------------------------------------------------------------
(* Claims about the CSV header and the column order *)

\* the text of data before its first line end
FirstLine(data) ==
    LET ends == {i \in 1..Len(data) : data[i] = "\n"}
    IN  IF ends = {} THEN data
        ELSE SubSeq(data, 1, (CHOOSE i \in ends : \A j \in ends : i <= j) - 1)

ClaimedHeaderCols ==
    <<"id", "created_at", "operator_id", "instance_id", "app_version",
      "device_id", "device_name", "status", "action_type", "voltage",
      "temperature", "severity", "ui_latency_ms", "notes">>

\* the value of a record that belongs under a header column
ColumnValue(col, pair, values) ==
    CASE col \in {"id", "uuid"} -> pair[1]
      [] col = "created_at" -> pair[2]
      [] col = "operator_id" -> values["Operator ID"]
      [] col = "instance_id" -> values["Instance ID"]
      [] col = "app_version" -> values["App Version"]
      [] col = "device_id" -> values["Device ID"]
      [] col = "device_name" -> values["Device Name"]
      [] col = "status" -> values["Status"]
      [] col = "action_type" -> values["Action Type"]
      [] col = "voltage" -> values["Voltage"]
      [] col = "temperature" -> values["Temperature"]
      [] col = "severity" -> values["Severity"]
      [] col = "ui_latency_ms" -> values["UI Latency"]
      [] col = "notes" -> values["Notes"]

\* the header line is the names cols, and every written row renders the
\* values of its record in the order of cols
HeaderAndRowsFollow(cols) ==
    (written # <<>>) =>
        /\ FirstLine(file.data)
              = JoinComma([c \in 1..Len(cols) |-> <<cols[c]>>])
        /\ \A k \in 1..Len(written) :
              written[k].row =
                  JoinComma([c \in 1..Len(cols) |->
                                csv_escape(ColumnValue(
                                    cols[c], fut[written[k].sub].pair,
                                    subs[written[k].sub].values))])

\* C13 as claimed: the header line save_device_csv writes when it creates the
\* file is exactly id,created_at,operator_id,...,notes and every data row
\* renders its columns in that order.
C13_HeaderStartsWithId == HeaderAndRowsFollow(ClaimedHeaderCols)

\* C13 as amended: the header line is exactly uuid,created_at,operator_id,
\* ...,notes (the first column is named uuid, not id) and every data row
\* renders its columns in that order.
C13_HeaderStartsWithUuid ==
    HeaderAndRowsFollow([ClaimedHeaderCols EXCEPT ![1] = "uuid"])

C13_Witness ==
    /\ Len(written) = 2
    /\ FirstLine(file.data)[1] = "uuid"
    /\ subs[written[2].sub].values["Notes"] # <<>>
    /\ subs[written[1].sub].values["Device ID"]
          # subs[written[1].sub].values["Device Name"]

----------------------------------------------------------------------------
(* Claims about json_escape *)

HexChars ==
    {"0", "1", "2", "3", "4", "5", "6", "7", "8", "9", "a", "b", "c", "d",
     "e", "f", "A", "B", "C", "D", "E", "F"}

\* out, read from position i on, is a run of plain characters (no control
\* character, no double quote, no backslash) and of the escape sequences
\* \", \\, \b, \f, \n, \r, \t and \u00XX
RECURSIVE EscapedFrom(_, _)
EscapedFrom(out, i) ==
    IF i > Len(out) THEN TRUE
    ELSE IF out[i] = "\\"
         THEN \/ /\ i + 1 <= Len(out)
                 /\ out[i + 1] \in {DQ, "\\", "b", "f", "n", "r", "t"}
                 /\ EscapedFrom(out, i + 2)
              \/ /\ i + 5 <= Len(out)
                 /\ out[i + 1] = "u"
                 /\ out[i + 2] = "0"
                 /\ out[i + 3] = "0"
                 /\ out[i + 4] \in HexChars
                 /\ out[i + 5] \in HexChars
                 /\ EscapedFrom(out, i + 6)
         ELSE /\ out[i] # DQ
              /\ CharCode(out[i]) >= 32
              /\ EscapedFrom(out, i + 1)

\* C14: the output of json_escape holds no character below 0x20, each of its
\* double quotes directly follows an escaping backslash, and each of its
\* backslashes belongs to one of the escape sequences \", \\, \b, \f, \n,
\* \r, \t, \u00XX.
C14_JsonEscapeWellFormed ==
    (epc = "escaped") =>
        /\ \A i \in 1..Len(eOut) : CharCode(eOut[i]) >= 32
        /\ \A i \in 1..Len(eOut) :
              (eOut[i] = DQ) => (i > 1 /\ eOut[i - 1] = "\\")
        /\ EscapedFrom(eOut, 1)

C14_Witness ==
    /\ epc = "escaped"
    /\ eIn = <<"\\", DQ, "US">>
    /\ eOut = <<"\\", "\\", "\\", DQ, "\\", "u", "0", "0", "1", "f">>

----------------------------------------------------------------------------
(* Claims about the content save_device_json computes *)

JsonWhitespace == {" ", "\t", "\r", "\n"}

\* c without its trailing whitespace
Trimmed(c) ==
    LET keep == {n \in 0..Len(c) : n = 0 \/ c[n] \notin JsonWhitespace}
    IN  SubSeq(c, 1, CHOOSE n \in keep : \A m \in keep : m <= n)

\* the new content as the three cases of C15 give it
ExpectedContent(c, o) ==
    LET t == Trimmed(c)
    IN  IF t = <<>> \/ t = <<"[", "]">> THEN <<"[">> \o o \o <<"]">>
        ELSE IF t[1] = "[" /\ t[Len(t)] = "]"
             THEN SubSeq(t, 1, Len(t) - 1) \o <<",">> \o o \o <<"]">>
             ELSE <<"[">> \o o \o <<"]">>

\* C15: from the prior content c (nothing when the file is absent), trimmed
\* of trailing whitespace, and the object o, save_device_json computes [o]
\* when the trimmed content is empty or exactly [], the trimmed content
\* without its last ] followed by ,o] when it starts with [ and ends with ],
\* and [o] otherwise; no case raises an error, and the computed content is
\* what a run without a failed step leaves at the destination.
C15_NewContentByCases ==
    /\ (jpc \in {"write_tmp", "remove", "rename", "copy", "remove_tmp",
                 "return"})
          => (outContent = ExpectedContent(prevFile.data, json_obj))
    /\ (jpc = "return" /\ ~stepFailed)
          => (file = FileOf(ExpectedContent(prevFile.data, json_obj)))

C15_Witness ==
    /\ jpc = "return"
    /\ ~stepFailed
    /\ prevFile = FileOf(<<"x", "]", " ">>)
    /\ file = FileOf(<<"[", "{", "a", "}", "]">>)

Bad == [ok |-> FALSE, elems |-> <<>>]

\* the elements of the text s of one or more array elements separated by
\* commas; an element is x or an object {id}
RECURSIVE ItemsFrom(_)
ItemsFrom(s) ==
    LET n == IF s # <<>> /\ s[1] = "x" THEN 1
             ELSE IF Len(s) >= 3 /\ s[1] = "{" /\ s[2] \in ObjIds
                     /\ s[3] = "}"
                  THEN 3 ELSE 0
    IN  IF n = 0 THEN Bad
        ELSE IF Len(s) = n THEN [ok |-> TRUE, elems |-> <<SubSeq(s, 1, n)>>]
        ELSE IF s[n + 1] # "," THEN Bad
        ELSE LET r == ItemsFrom(SubSeq(s, n + 2, Len(s)))
             IN  IF r.ok
                 THEN [ok |-> TRUE, elems |-> <<SubSeq(s, 1, n)>> \o r.elems]
                 ELSE Bad

NotWhitespace(c) == c \notin JsonWhitespace

\* data read as a JSON array: whether it is well formed, and its elements
ParseArray(data) ==
    LET t == SelectSeq(data, NotWhitespace)
    IN  IF Len(t) < 2 \/ t[1] # "[" \/ t[Len(t)] # "]" THEN Bad
        ELSE IF Len(t) = 2 THEN [ok |-> TRUE, elems |-> <<>>]
        ELSE ItemsFrom(SubSeq(t, 2, Len(t) - 1))

\* C18: when the existing content is a well-formed JSON array of k >= 0
\* elements ([ ] and an array followed by whitespace included), a call of
\* save_device_json whose file steps all succeed leaves a well-formed array
\* of k + 1 elements: the k previous ones, then the new object.
C18_WellFormedArrayGrowsByOne ==
    (jpc = "return" /\ ~stepFailed /\ prevFile.exists
     /\ ParseArray(prevFile.data).ok)
        => /\ ParseArray(file.data).ok
           /\ ParseArray(file.data).elems
                 = Append(ParseArray(prevFile.data).elems, json_obj)

\* C20 as claimed: once save_device_json has returned, the temporary file no
\* longer exists, whatever rename and the copy fallback did.
C20_TempGoneAfterReturn ==
    (jpc \in {"return", "idle"} /\ runs >= 1) => ~tmp.exists

\* C20 as amended: once save_device_json has returned, the temporary file no
\* longer exists when the rename succeeded, and when the rename failed and
\* the removal that ends the fallback succeeded; it is still there exactly
\* when the rename failed and that removal failed too.
C20_TempGoneUnlessRemovalFails ==
    (jpc \in {"return", "idle"} /\ runs >= 1) => (tmp.exists <=> (ec /\ ec2))

C20_Witness ==
    /\ jpc = "return"
    /\ ec
    /\ ~ec2
    /\ ~tmp.exists
    /\ file = FileOf(outContent)
    /\ prevFile.exists

----------------------------------------------------------------------------
(* Claims about intRange, the Add button and the shared file *)

\* v as a whole is an integer literal: an optional sign, then digits only
IsIntLiteral(v) ==
    /\ Unsigned(v) # <<>>
    /\ \A i \in 1..Len(Unsigned(v)) : Unsigned(v)[i] \in Digits

LiteralValue(v) ==
    IF Negative(v) THEN 0 - DecimalValue(Unsigned(v))
    ELSE DecimalValue(Unsigned(v))

\* C16: on a non-empty value intRange passes exactly when the whole value is
\* an integer literal whose value lies in [min, max]; digits followed by
\* other characters, a decimal such as 12.5 and an integer out of the bounds
\* all fail.
C16_IntRangeWholeLiteral ==
    (vpc = "applied" /\ vCall.kind = "intRange" /\ vValue # <<>>) =>
        (vResult.isValid <=>
            (/\ IsIntLiteral(vValue)
             /\ LiteralValue(vValue) >= vCall.a
             /\ LiteralValue(vValue) <= vCall.b))

InFlight == {i \in 1..Len(subs) : NotifiedCount(i) = 0}

\* C17: at most one submission is in flight; the Add button is disabled
\* from the start of a validated submission until its completion callback
\* has run, so no click starts a second background task meanwhile, and it is
\* enabled again after the callback, on the success and on the failure path.
C17_OneSubmissionInFlight ==
    /\ Cardinality(InFlight) <= 1
    /\ addBtnEnabled <=> (InFlight = {})
    /\ Cardinality({i \in 1..Len(thr) : thr[i].pc # "done"}) <= 1

C17_Witness ==
    /\ Len(subs) = 2
    /\ Len(msgBoxes) = 1
    /\ msgBoxes[1].kind = "Error"
    /\ InFlight = {2}
    /\ ~addBtnEnabled

\* part occurs in data as a run of consecutive characters
Occurs(part, data) ==
    \E i \in 1..(Len(data) - Len(part) + 1) :
        SubSeq(data, i, i + Len(part) - 1) = part

\* C19: the CSV writer and the JSON writer resolve to the same file, and a
\* record one writer has written is not removed by a later write of the
\* other: a row that is in the file when a rewrite starts is in the file the
\* rewrite leaves, and an object that is in the file when an append starts is
\* in the file the append leaves.
C19_NoRecordRemovedByOtherWriter ==
    /\ get_appdata_devices_path = get_appdata_devices_path_json
    /\ (jpc = "idle" /\ runs >= 1) =>
          \A k \in 1..Len(written) :
              Occurs(written[k].row, prevFile.data)
                  => Occurs(written[k].row, file.data)
    /\ (uiPc # UiIdle) =>
          \A k \in 1..Len(jlog) :
              Occurs(jlog[k], uiPc.before.data) => Occurs(jlog[k], file.data)

====
